---- MODULE Spec2Model ----
(***************************************************************************)
(* Model of the TED RAG assistant, src/api/index.py: the module-level      *)
(* client setup, GET /api/stats and the POST /api/prompt pipeline          *)
(* (embed -> vector search -> normalize and assemble -> build prompts ->   *)
(* generate).                                                              *)
(*                                                                         *)
(* Text is modelled as a sequence of tokens: an f-string is the            *)
(* concatenation (\o) of its literal pieces and of the interpolated texts, *)
(* the empty string is << >>.  A string that is parsed (the 'views'        *)
(* metadata) is a sequence of one-character tokens.                        *)
(***************************************************************************)
EXTENDS Integers, Sequences, FiniteSets, TLC

\* ------------------------------------------------------------------ bounds
\* Requests of the concurrency specification Spec bring back at most
\* MaxMatches matches, the single request of SpecOrder at most MaxOrderLen,
\* the single request of SpecNorm at most MaxNormLen.
MaxMatches == 2
MaxOrderLen == 3
MaxNormLen == 1

\* --------------------------------------------------------- program constants
TOP_K == 8
MAX_CHUNK_SIZE == 512
\* OVERLAP_RATIO = 0.2, written as the fraction 2/10.
OVERLAP_RATIO == <<2, 10>>
EMBEDDING_DIMENSIONS == 1536

SYSTEM_PROMPT == <<"You are a TED Talk assistant ... quoting or paraphrasing the relevant transcript or metadata when helpful.">>

\* ------------------------------------------------------------ Python values
\* A scalar as the vector store or the chat service hands it over: k is its
\* Python type, s its text when it is a str, n its number when it is an
\* int (n) or a float (n tenths: FloatV(125) is 12.5).
StrV(s) == [k |-> "str", s |-> s, n |-> 0]
IntV(n) == [k |-> "int", s |-> << >>, n |-> n]
FloatV(tenths) == [k |-> "float", s |-> << >>, n |-> tenths]
Null == [k |-> "null", s |-> << >>, n |-> 0]

\* str(v)
Str(v) ==
    CASE v.k = "str" -> v.s
      [] v.k = "int" -> <<ToString(v.n)>>
      [] v.k = "float" ->
            <<ToString(IF v.n < 0 THEN -((-v.n) \div 10) ELSE v.n \div 10), ".",
              ToString((IF v.n < 0 THEN -v.n ELSE v.n) % 10)>>
      [] v.k = "null" -> <<"None">>

\* bool(v): the truth value Python gives a scalar
Truthy(v) ==
    CASE v.k = "str" -> v.s # << >>
      [] v.k = "int" -> v.n # 0
      [] v.k = "float" -> v.n # 0
      [] v.k = "null" -> FALSE

\* meta.get(key, default) on a metadata mapping (a function whose domain is
\* the set of keys present)
Get(meta, key, default) == IF key \in DOMAIN meta THEN meta[key] ELSE default

\* ------------------------------------------------------- float() and int()
Digits == {"0", "1", "2", "3", "4", "5", "6", "7", "8", "9"}
DigitVal(c) ==
    CASE c = "0" -> 0 [] c = "1" -> 1 [] c = "2" -> 2 [] c = "3" -> 3
      [] c = "4" -> 4 [] c = "5" -> 5 [] c = "6" -> 6 [] c = "7" -> 7
      [] c = "8" -> 8 [] c = "9" -> 9

AllDigits(s) == \A i \in 1..Len(s) : s[i] \in Digits

RECURSIVE DecVal(_)
DecVal(s) == IF s = << >> THEN 0
             ELSE DecVal(SubSeq(s, 1, Len(s) - 1)) * 10 + DigitVal(s[Len(s)])

\* The position of the first "." of s, Len(s) + 1 when there is none.
DotPos(s) ==
    IF \E i \in 1..Len(s) : s[i] = "."
    THEN CHOOSE i \in 1..Len(s) : s[i] = "." /\ \A j \in 1..(i - 1) : s[j] # "."
    ELSE Len(s) + 1

\* An unsigned decimal literal: digits, optionally a point and digits, with
\* a digit on at least one side of the point.
IsUnsignedDec(s) ==
    LET d == DotPos(s)
        whole == SubSeq(s, 1, d - 1)
        frac == SubSeq(s, d + 1, Len(s))
    IN  /\ AllDigits(whole)
        /\ AllDigits(frac)
        /\ Len(whole) + Len(frac) > 0

Unsigned(s) == IF s # << >> /\ s[1] \in {"-", "+"} THEN Tail(s) ELSE s

\* float(v): [ok |-> FALSE] when the call raises (TypeError on None,
\* ValueError on a string that is no number), else the number as the pair
\* neg (its sign) and whole (the integer part of its magnitude).  Literal
\* forms outside the modelled alphabet (exponents, inf, nan, blanks) are
\* not drawn.
PyFloat(v) ==
    CASE v.k = "int" ->
            [ok |-> TRUE, neg |-> v.n < 0, whole |-> IF v.n < 0 THEN -v.n ELSE v.n]
      [] v.k = "float" ->
            [ok |-> TRUE, neg |-> v.n < 0,
             whole |-> (IF v.n < 0 THEN -v.n ELSE v.n) \div 10]
      [] v.k = "str" ->
            IF IsUnsignedDec(Unsigned(v.s))
            THEN [ok |-> TRUE, neg |-> v.s[1] = "-",
                  whole |-> DecVal(SubSeq(Unsigned(v.s), 1, DotPos(Unsigned(v.s)) - 1))]
            ELSE [ok |-> FALSE, neg |-> FALSE, whole |-> 0]
      [] v.k = "null" -> [ok |-> FALSE, neg |-> FALSE, whole |-> 0]

\* int(f) of a float: truncation toward zero
PyInt(f) == IF f.neg THEN -f.whole ELSE f.whole

\* int(v) applied to the raw value, without float(): a string must then be
\* an integer literal.
ViewsIntOnly(meta) ==
    LET v == Get(meta, "views", IntV(0))
    IN  CASE v.k = "int" -> v.n
          [] v.k = "float" -> PyInt(PyFloat(v))
          [] v.k = "str" ->
                IF Unsigned(v.s) # << >> /\ AllDigits(Unsigned(v.s))
                THEN PyInt(PyFloat(v)) ELSE 0
          [] v.k = "null" -> 0

\* try: views = int(float(meta.get('views', 0)))  except: views = 0
Views(meta) ==
    LET f == PyFloat(Get(meta, "views", IntV(0)))
    IN  IF f.ok THEN PyInt(f) ELSE 0

\* ------------------------------------------------------------ passage text
\* The three keys probed in the order chunk, chunk_text, text.
ChunkContentLegacyFirst(meta) ==
    LET a == Str(Get(meta, "chunk", StrV(<< >>)))
        b == Str(Get(meta, "chunk_text", StrV(<< >>)))
        c == Str(Get(meta, "text", StrV(<< >>)))
    IN  IF a # << >> THEN a ELSE IF b # << >> THEN b ELSE c

\* chunk_content = str(meta.get('chunk_text', '')), then the fallbacks
\* 'chunk' and 'text' while it is empty
ChunkContent(meta) ==
    LET a == Str(Get(meta, "chunk_text", StrV(<< >>)))
        b == Str(Get(meta, "chunk", StrV(<< >>)))
        c == Str(Get(meta, "text", StrV(<< >>)))
    IN  IF a # << >> THEN a ELSE IF b # << >> THEN b ELSE c

\* ----------------------------------------------------- normalize one match
\* "if not match.metadata: continue": None and {} are both falsy; both are
\* the mapping with no key.
SkipMatch(match) == DOMAIN match.metadata = {}

\* The dict appended to retrieved_chunks
ContextItem(match) ==
    LET meta == match.metadata
    IN  [talk_id |-> Str(Get(meta, "talk_id", StrV(<<"Unknown">>))),
         title |-> Str(Get(meta, "title", StrV(<<"Unknown">>))),
         chunk |-> ChunkContent(meta),
         score |-> match.score,
         speaker |-> Str(Get(meta, "speaker", StrV(<<"Unknown">>))),
         url |-> Str(Get(meta, "url", StrV(<< >>))),
         topics |-> Str(Get(meta, "topics", StrV(<< >>))),
         views |-> Views(meta),
         published_date |-> Str(Get(meta, "published_date", StrV(<< >>)))]

\* The f-string added to context_text for one item
ContextBlock(item) ==
    <<"\n### Source Document\nTitle: ">> \o item.title
        \o <<"\nSpeaker: ">> \o item.speaker
        \o <<"\nDate: ">> \o item.published_date
        \o <<"\nViews: ">> \o <<ToString(item.views)>>
        \o <<"\nLink: ">> \o item.url
        \o <<"\nContent: ">> \o item.chunk \o <<"\n">>

\* user_prompt
UserPrompt(ctx, q) ==
    <<"Analyze the provided TED Talk context chunks ... Context:\n">> \o ctx
        \o <<"\n\nQuestion: ">> \o q \o <<"\nAnswer:">>

\* ------------------------------------------------------ errors and answers
NOT_INITIALIZED == <<"Server Error: Pinecone not initialized.">>
EMPTY_RESPONSE == <<"Error: Model returned empty response.">>

EmbeddingErrorDetail(e) == <<"Embedding Error: ">> \o e
PineconeErrorDetail(e) == <<"Pinecone Query Error: ">> \o e
GenerationErrorAnswer(e) == <<"Error generating response: ">> \o e

\* The content handed back as it is, empty or not.
AnswerRaw(content) == Str(content)

\* answer = content if content else "Error: Model returned empty response."
Answer(content) == IF Truthy(content) THEN content.s ELSE EMPTY_RESPONSE

\* The /api/stats body with the embedding dimension in place of the chunk size.
StatsBodyWrongField(g) ==
    [status |-> 200, chunk_size |-> EMBEDDING_DIMENSIONS,
     overlap_ratio |-> g.OVERLAP_RATIO, top_k |-> g.TOP_K]

\* stats_endpoint's return value, read from the module globals g
StatsBody(g) ==
    [status |-> 200, chunk_size |-> g.MAX_CHUNK_SIZE,
     overlap_ratio |-> g.OVERLAP_RATIO, top_k |-> g.TOP_K]

\* =================================================================== state
VARIABLES
    env,               \* which credentials the environment holds
    proc,              \* "loading", "up" (module imported), "crashed"
    client,            \* the module global client
    index,             \* the module global index
    globals,           \* the module globals TOP_K, MAX_CHUNK_SIZE, OVERLAP_RATIO
    stats,             \* the last reply of GET /api/stats
    pc,                \* per request: where prompt_endpoint stands
    question,          \* per request: the local question
    q_embed,           \* per request: the local q_embed
    search_results,    \* per request: the local search_results
    pos,               \* per request: the position of the for loop
    context_text,      \* per request: the local context_text
    retrieved_chunks,  \* per request: the local retrieved_chunks
    system_prompt,     \* per request: the local system_prompt
    user_prompt,       \* per request: the local user_prompt
    calls,             \* per request: the external calls invoked, in order,
                       \* each with what it gave back
    resp               \* per request: the HTTP reply

procVars == <<env, proc, client, index, globals>>
reqVars == <<pc, question, q_embed, search_results, pos, context_text,
             retrieved_chunks, system_prompt, user_prompt, calls, resp>>
vars == <<env, proc, client, index, globals, stats, pc, question, q_embed,
          search_results, pos, context_text, retrieved_chunks, system_prompt,
          user_prompt, calls, resp>>

\* ------------------------------------------------------------------ inputs
Req == {1, 2}
OneReq == {1}

Questions == {<<"What does the top talk discuss?">>, <<"Who spoke about oceans?">>}
\* str(e) of the exception an external call raises; it may be empty.
ErrTexts == {<< >>, <<"connection timed out">>}
Vectors == {"vec"}
\* response.choices[0].message.content: absent, empty, or a text
Contents == {Null, StrV(<< >>), StrV(<<"The talk is about climate.">>)}

\* An entry of calls: the call op is "pending" until it returns, then "ok"
\* (ret is the content a generation call gave back) or "raised" (err is
\* str(e)).
Invoked(op) == [op |-> op, out |-> "pending", err |-> << >>, ret |-> Null]
Returned(c, ret) == [c EXCEPT !.out = "ok", !.ret = ret]
Failed(c, e) == [c EXCEPT !.out = "raised", !.err = e]

NoVector == "none"
NoResults == [matches |-> << >>]
NoReply ==
    [status |-> 0, detail |-> << >>, response |-> << >>, context |-> << >>,
     System |-> << >>, User |-> << >>]
NoStats == [status |-> 0, chunk_size |-> 0, overlap_ratio |-> <<0, 1>>, top_k |-> 0]

\* Metadata mappings.  Opt(key, o) holds key when o is a value, and nothing
\* when o is Absent.
Absent == [k |-> "absent", s |-> << >>, n |-> 0]
Opt(key, o) == IF o = Absent THEN << >> ELSE (key :> o)

EmptyMeta == << >>
RichMeta ==
    ("talk_id" :> StrV(<<"5">>)) @@ ("title" :> StrV(<<"Sample">>))
        @@ ("chunk_text" :> StrV(<<"about climate">>))
        @@ ("views" :> StrV(<<"1", "2", "0", "0", ".", "0">>))
        @@ ("speaker" :> StrV(<<"A. Speaker">>))
\* A mapping that holds only a key the handler never reads.
ForeignMeta == ("lang" :> StrV(<<"en">>))
LegacyMeta ==
    ("talk_id" :> IntV(7)) @@ ("chunk" :> StrV(<<"about oceans">>))
        @@ ("text" :> StrV(<<"older text">>)) @@ ("views" :> IntV(40))

CoreMeta == {EmptyMeta, RichMeta}
OrderMeta == {EmptyMeta, RichMeta, ForeignMeta, LegacyMeta}

TextOpts(key) == {Absent, Null, StrV(<< >>), StrV(<<key, " passage">>)}
TextMeta ==
    { ("talk_id" :> StrV(<<"5">>)) @@ Opt("chunk_text", a) @@ Opt("chunk", b)
          @@ Opt("text", c) :
        a \in TextOpts("chunk_text") \cup {IntV(0)},
        b \in TextOpts("chunk"), c \in TextOpts("text") }
ViewsOpts ==
    {Absent, Null, IntV(1200), IntV(0), IntV(-3), FloatV(125), FloatV(-39),
     FloatV(9),
     StrV(<<"1", "2", "0", "0", ".", "0">>), StrV(<<"1", "2">>),
     StrV(<<"-", "3", ".", "9">>), StrV(<<"+", "7", ".">>), StrV(<<".", "5">>),
     StrV(<< >>), StrV(<<"-">>), StrV(<<".">>), StrV(<<"a", "b", "c">>),
     StrV(<<"1", "2", "a">>), StrV(<<"1", ".", "2", ".", "3">>),
     StrV(<<"1", "-", "2">>)}
ViewsMeta == { ("title" :> StrV(<<"Sample">>)) @@ Opt("views", v) : v \in ViewsOpts }
NormMeta == {EmptyMeta} \cup TextMeta \cup ViewsMeta

\* The store ranks its matches: the i-th match of a reply has score
\* ScoreAt(i), descending.
ScoreAt(i) == 100 - i

\* The replies index.query(vector, top_k, include_metadata=True) may give:
\* at most top_k matches (and at most n, the bound), metadata drawn from U.
Replies(U, n, top_k) ==
    LET most == IF n < top_k THEN n ELSE top_k
    IN  UNION { { [matches |-> [i \in 1..len |-> [score |-> ScoreAt(i), metadata |-> ms[i]]]] :
                    ms \in [1..len -> U] } : len \in 0..most }

\* ==================================================================== Init
\* The module constants (lines 12-20) are set; the client setup has not run.
Init ==
    /\ env \in [openai : BOOLEAN, pinecone : BOOLEAN]
    /\ proc = "loading"
    /\ client = "unset"
    /\ index = "unset"
    /\ globals = [TOP_K |-> TOP_K, MAX_CHUNK_SIZE |-> MAX_CHUNK_SIZE,
                  OVERLAP_RATIO |-> OVERLAP_RATIO]
    /\ stats = NoStats
    /\ pc = [r \in Req |-> "idle"]
    /\ question = [r \in Req |-> << >>]
    /\ q_embed = [r \in Req |-> NoVector]
    /\ search_results = [r \in Req |-> NoResults]
    /\ pos = [r \in Req |-> 0]
    /\ context_text = [r \in Req |-> << >>]
    /\ retrieved_chunks = [r \in Req |-> << >>]
    /\ system_prompt = [r \in Req |-> << >>]
    /\ user_prompt = [r \in Req |-> << >>]
    /\ calls = [r \in Req |-> << >>]
    /\ resp = [r \in Req |-> NoReply]

\* ================================================================= actions
\* Module-level client setup.  OpenAI(api_key=...) is built whatever the
\* key; index is pc.Index(INDEX_NAME) when PINECONE_API_KEY is set, else
\* None (with a warning printed).
Startup ==
    /\ proc = "loading"
    /\ client' = "client"
    /\ index' = IF env.pinecone THEN "index" ELSE "None"
    /\ proc' = "up"
    /\ UNCHANGED <<env, globals, stats>>
    /\ UNCHANGED reqVars

\* The OpenAI constructor is given api_key=None when OPENAI_API_KEY is not
\* set and no handler surrounds it: when it raises, the import of the module
\* fails and no request is ever served.
StartupRaises ==
    /\ proc = "loading"
    /\ ~env.openai
    /\ proc' = "crashed"
    /\ UNCHANGED <<env, client, index, globals, stats>>
    /\ UNCHANGED reqVars

\* GET /api/stats
Stats ==
    /\ proc = "up"
    /\ stats' = StatsBody(globals)
    /\ UNCHANGED procVars
    /\ UNCHANGED reqVars

\* raise HTTPException(status_code=500, detail=detail): the request ends.
Raise500(r, detail) ==
    /\ resp' = [resp EXCEPT ![r] = [NoReply EXCEPT !.status = 500, !.detail = detail]]
    /\ pc' = [pc EXCEPT ![r] = "done"]

\* The final return of prompt_endpoint: HTTP 200 with the answer, the
\* context list and both prompts.
Return200(r, answer) ==
    /\ resp' = [resp EXCEPT ![r] =
                  [status |-> 200, detail |-> << >>, response |-> answer,
                   context |-> retrieved_chunks[r],
                   System |-> system_prompt[r], User |-> user_prompt[r]]]
    /\ pc' = [pc EXCEPT ![r] = "done"]

\* POST /api/prompt arrives: "if not index" refuses it, else the question is
\* read from the body.
PromptEntry(r) ==
    /\ proc = "up"
    /\ pc[r] = "idle"
    /\ \E q \in Questions :
          IF index = "None"
          THEN /\ Raise500(r, NOT_INITIALIZED)
               /\ UNCHANGED question
          ELSE /\ question' = [question EXCEPT ![r] = q]
               /\ pc' = [pc EXCEPT ![r] = "embed"]
               /\ UNCHANGED resp
    /\ UNCHANGED <<q_embed, search_results, pos, context_text, retrieved_chunks,
                   system_prompt, user_prompt, calls, stats>>
    /\ UNCHANGED procVars

\* A. client.embeddings.create(...) is invoked and blocks.
EmbedCall(r) ==
    /\ pc[r] = "embed"
    /\ calls' = [calls EXCEPT ![r] = Append(@, Invoked("embed"))]
    /\ pc' = [pc EXCEPT ![r] = "embedding"]
    /\ UNCHANGED <<question, q_embed, search_results, pos, context_text,
                   retrieved_chunks, system_prompt, user_prompt, resp, stats>>
    /\ UNCHANGED procVars

\* The embedding call (or the read of data[0].embedding) raised e, and the
\* handler goes on to the search with no vector.
EmbedRaisesSwallowed(r, e) ==
    /\ pc' = [pc EXCEPT ![r] = "query"]
    /\ UNCHANGED <<q_embed, resp>>

\* The embedding call raised e, and the handler tries the call again.
EmbedRaisesRetried(r, e) ==
    /\ pc' = [pc EXCEPT ![r] = "embed"]
    /\ UNCHANGED <<q_embed, resp>>

\* except Exception as e: raise HTTPException(500, "Embedding Error: ...")
EmbedRaises(r, e) ==
    /\ Raise500(r, EmbeddingErrorDetail(e))
    /\ UNCHANGED q_embed

\* The embedding call returns: the vector, or an exception.
EmbedReturn(r) ==
    /\ pc[r] = "embedding"
    /\ \/ \E v \in Vectors :
            /\ calls' = [calls EXCEPT ![r][Len(calls[r])] = Returned(@, Null)]
            /\ q_embed' = [q_embed EXCEPT ![r] = v]
            /\ pc' = [pc EXCEPT ![r] = "query"]
            /\ UNCHANGED resp
       \/ \E e \in ErrTexts :
            /\ calls' = [calls EXCEPT ![r][Len(calls[r])] = Failed(@, e)]
            /\ EmbedRaises(r, e)
    /\ UNCHANGED <<question, search_results, pos, context_text, retrieved_chunks,
                   system_prompt, user_prompt, stats>>
    /\ UNCHANGED procVars

\* B. index.query(vector=q_embed, top_k=TOP_K, include_metadata=True) is
\* invoked and blocks.
QueryCall(r) ==
    /\ pc[r] = "query"
    /\ calls' = [calls EXCEPT ![r] = Append(@, Invoked("search"))]
    /\ pc' = [pc EXCEPT ![r] = "querying"]
    /\ UNCHANGED <<question, q_embed, search_results, pos, context_text,
                   retrieved_chunks, system_prompt, user_prompt, resp, stats>>
    /\ UNCHANGED procVars

\* except Exception as e: raise HTTPException(500, "Pinecone Query Error: ...")
QueryRaises(r, e) ==
    /\ Raise500(r, PineconeErrorDetail(e))
    /\ UNCHANGED <<search_results, pos, context_text, retrieved_chunks>>

\* The search returns a reply drawn from replies, or an exception.  On a
\* reply the loop starts: context_text = "", retrieved_chunks = [].
QueryReturn(r, replies) ==
    /\ pc[r] = "querying"
    /\ \/ \E res \in replies :
            /\ calls' = [calls EXCEPT ![r][Len(calls[r])] = Returned(@, Null)]
            /\ search_results' = [search_results EXCEPT ![r] = res]
            /\ context_text' = [context_text EXCEPT ![r] = << >>]
            /\ retrieved_chunks' = [retrieved_chunks EXCEPT ![r] = << >>]
            /\ pos' = [pos EXCEPT ![r] = 1]
            /\ pc' = [pc EXCEPT ![r] = "loop"]
            /\ UNCHANGED resp
       \/ \E e \in ErrTexts :
            /\ calls' = [calls EXCEPT ![r][Len(calls[r])] = Failed(@, e)]
            /\ QueryRaises(r, e)
    /\ UNCHANGED <<question, q_embed, system_prompt, user_prompt, stats>>
    /\ UNCHANGED procVars

\* The item goes to the front of the list.
KeepMatchAtFront(r, match) ==
    /\ context_text' = [context_text EXCEPT ![r] = ContextBlock(ContextItem(match)) \o @]
    /\ retrieved_chunks' = [retrieved_chunks EXCEPT ![r] = <<ContextItem(match)>> \o @]

\* The item is appended to the list and its section is left out of the text.
KeepMatchListOnly(r, match) ==
    /\ UNCHANGED context_text
    /\ retrieved_chunks' = [retrieved_chunks EXCEPT ![r] = Append(@, ContextItem(match))]

\* context_text += block; retrieved_chunks.append(item)
KeepMatch(r, match) ==
    /\ context_text' = [context_text EXCEPT ![r] = @ \o ContextBlock(ContextItem(match))]
    /\ retrieved_chunks' = [retrieved_chunks EXCEPT ![r] = Append(@, ContextItem(match))]

\* C. One pass of "for match in search_results['matches']".
LoopStep(r) ==
    /\ pc[r] = "loop"
    /\ pos[r] <= Len(search_results[r].matches)
    /\ LET match == search_results[r].matches[pos[r]]
       IN  IF SkipMatch(match)
           THEN UNCHANGED <<context_text, retrieved_chunks>>
           ELSE KeepMatch(r, match)
    /\ pos' = [pos EXCEPT ![r] = @ + 1]
    /\ UNCHANGED <<pc, question, q_embed, search_results, system_prompt,
                   user_prompt, calls, resp, stats>>
    /\ UNCHANGED procVars

\* D. The loop is over: system_prompt and user_prompt are built.
BuildPrompts(r) ==
    /\ pc[r] = "loop"
    /\ pos[r] > Len(search_results[r].matches)
    /\ system_prompt' = [system_prompt EXCEPT ![r] = SYSTEM_PROMPT]
    /\ user_prompt' = [user_prompt EXCEPT ![r] = UserPrompt(context_text[r], question[r])]
    /\ pc' = [pc EXCEPT ![r] = "generate"]
    /\ UNCHANGED <<question, q_embed, search_results, pos, context_text,
                   retrieved_chunks, calls, resp, stats>>
    /\ UNCHANGED procVars

\* E. client.chat.completions.create(...) is invoked and blocks.
GenerateCall(r) ==
    /\ pc[r] = "generate"
    /\ calls' = [calls EXCEPT ![r] = Append(@, Invoked("generate"))]
    /\ pc' = [pc EXCEPT ![r] = "generating"]
    /\ UNCHANGED <<question, q_embed, search_results, pos, context_text,
                   retrieved_chunks, system_prompt, user_prompt, resp, stats>>
    /\ UNCHANGED procVars

\* The generation failure treated like the failures of the first two stages.
GenerateRaisesFatal(r, e) == Raise500(r, GenerationErrorAnswer(e))

\* The generation failure answered at once, without the context list.
GenerateRaisesNoContext(r, e) ==
    /\ resp' = [resp EXCEPT ![r] =
                  [status |-> 200, detail |-> << >>,
                   response |-> GenerationErrorAnswer(e), context |-> << >>,
                   System |-> system_prompt[r], User |-> user_prompt[r]]]
    /\ pc' = [pc EXCEPT ![r] = "done"]

\* except Exception as e: answer = "Error generating response: ..."; the
\* handler goes on to its return.
GenerateRaises(r, e) == Return200(r, GenerationErrorAnswer(e))

\* The generation call returns its content (absent, empty or a text), or the
\* call (or the read of choices[0].message.content) raises.
GenerateReturn(r) ==
    /\ pc[r] = "generating"
    /\ \/ \E c \in Contents :
            /\ calls' = [calls EXCEPT ![r][Len(calls[r])] = Returned(@, c)]
            /\ Return200(r, Answer(c))
       \/ \E e \in ErrTexts :
            /\ calls' = [calls EXCEPT ![r][Len(calls[r])] = Failed(@, e)]
            /\ GenerateRaises(r, e)
    /\ UNCHANGED <<question, q_embed, search_results, pos, context_text,
                   retrieved_chunks, system_prompt, user_prompt, stats>>
    /\ UNCHANGED procVars

\* ========================================================== specifications
\* Two concurrent requests, matches with no metadata or the sample metadata.
Next ==
    \/ Startup
    \/ StartupRaises
    \/ Stats
    \/ \E r \in Req :
          \/ PromptEntry(r)
          \/ EmbedCall(r)
          \/ EmbedReturn(r)
          \/ QueryCall(r)
          \/ QueryReturn(r, Replies(CoreMeta, MaxMatches, globals.TOP_K))
          \/ LoopStep(r)
          \/ BuildPrompts(r)
          \/ GenerateCall(r)
          \/ GenerateReturn(r)

Spec == Init /\ [][Next]_vars

\* One request, longer replies over four kinds of metadata.
NextOrder ==
    \/ Startup
    \/ StartupRaises
    \/ Stats
    \/ \E r \in OneReq :
          \/ PromptEntry(r)
          \/ EmbedCall(r)
          \/ EmbedReturn(r)
          \/ QueryCall(r)
          \/ QueryReturn(r, Replies(OrderMeta, MaxOrderLen, globals.TOP_K))
          \/ LoopStep(r)
          \/ BuildPrompts(r)
          \/ GenerateCall(r)
          \/ GenerateReturn(r)

SpecOrder == Init /\ [][NextOrder]_vars

\* One request, short replies over every combination of the text keys and
\* over the sample values of 'views'.
NextNorm ==
    \/ Startup
    \/ StartupRaises
    \/ Stats
    \/ \E r \in OneReq :
          \/ PromptEntry(r)
          \/ EmbedCall(r)
          \/ EmbedReturn(r)
          \/ QueryCall(r)
          \/ QueryReturn(r, Replies(NormMeta, MaxNormLen, globals.TOP_K))
          \/ LoopStep(r)
          \/ BuildPrompts(r)
          \/ GenerateCall(r)
          \/ GenerateReturn(r)

SpecNorm == Init /\ [][NextNorm]_vars

\* ================================================================== claims
\* What a request's call log says.
CallsOf(r, op) == { i \in 1..Len(calls[r]) : calls[r][i].op = op }
RaisedIn(r, op) == \E i \in CallsOf(r, op) : calls[r][i].out = "raised"
FailedStage12(r) == RaisedIn(r, "embed") \/ RaisedIn(r, "search")
StageTag(op) == IF op = "embed" THEN <<"Embedding Error: ">> ELSE <<"Pinecone Query Error: ">>

\* C1: a raised embedding or search call ends the request at once with HTTP
\* 500, the detail is the stage's tag followed by the error text, and the
\* failed call is the last external call of the request.
C1_FatalStages ==
    \A r \in Req : \A i \in 1..Len(calls[r]) :
        (calls[r][i].out = "raised" /\ calls[r][i].op \in {"embed", "search"}) =>
            /\ pc[r] = "done"
            /\ resp[r].status = 500
            /\ resp[r].detail = StageTag(calls[r][i].op) \o calls[r][i].err
            /\ i = Len(calls[r])
            /\ resp[r].response = << >>

\* One request stopped by its embedding call, the other by its search call.
C1_Witness ==
    /\ RaisedIn(1, "embed") /\ resp[1].status = 500
    /\ RaisedIn(2, "search") /\ resp[2].status = 500
    /\ calls[2][2].err # << >>

\* C2: a request whose generation call raised ends with HTTP 200 and the
\* answer "Error generating response: " + the error text, and its context
\* list and both prompts equal those of any request that got the same
\* matches and question and whose generation succeeded.
GenerationOk(r) == \E i \in CallsOf(r, "generate") : calls[r][i].out = "ok"
C2_GenerationFailureKeepsPayload ==
    \A r \in Req : \A i \in CallsOf(r, "generate") :
        calls[r][i].out = "raised" =>
            /\ pc[r] = "done"
            /\ resp[r].status = 200
            /\ resp[r].response = <<"Error generating response: ">> \o calls[r][i].err
            /\ \A o \in Req :
                  (/\ GenerationOk(o)
                   /\ search_results[o] = search_results[r]
                   /\ question[o] = question[r]) =>
                      /\ resp[r].context = resp[o].context
                      /\ resp[r].System = resp[o].System
                      /\ resp[r].User = resp[o].User

\* The same matches (one of them with metadata) and question, generation
\* raised for request 1 and succeeded for request 2.
C2_Witness ==
    /\ RaisedIn(1, "generate")
    /\ GenerationOk(2)
    /\ search_results[1] = search_results[2]
    /\ question[1] = question[2]
    /\ Len(resp[1].context) > 0
    /\ resp[1].status = 200
    /\ resp[2].response = <<"The talk is about climate.">>

\* C3, as stated: a finished request has HTTP 500 exactly when its embedding
\* or search call failed, and HTTP 200 otherwise.
C3_Only500OnStageFailure ==
    \A r \in Req :
        pc[r] = "done" => resp[r].status = IF FailedStage12(r) THEN 500 ELSE 200

\* C3, amended: a finished request has HTTP 500 exactly when the vector index
\* was not initialized or its embedding or search call failed, and HTTP 200
\* otherwise; a 200 reply after a failed or empty generation says so in its
\* response field.
C3_Only500OnRefusalOrStageFailure ==
    \A r \in Req :
        pc[r] = "done" =>
            /\ resp[r].status = IF index = "None" \/ FailedStage12(r) THEN 500 ELSE 200
            /\ (index = "None") => resp[r].detail = NOT_INITIALIZED
            /\ RaisedIn(r, "generate") =>
                  SubSeq(resp[r].response, 1, 1) = <<"Error generating response: ">>
            /\ (\E i \in CallsOf(r, "generate") :
                    calls[r][i].out = "ok" /\ ~Truthy(calls[r][i].ret)) =>
                  resp[r].response = EMPTY_RESPONSE

\* One request answered 200 after its generation call raised, the other
\* answered 500 after its search call raised.
C3_Witness ==
    /\ RaisedIn(1, "generate") /\ resp[1].status = 200
    /\ RaisedIn(2, "search") /\ resp[2].status = 500

\* C4, as stated: whichever credential is absent, the process starts, the
\* external calls that need the credential are never invoked, and every
\* finished request reports "not initialized".
NeedsOpenAI == {"embed", "generate"}
NeedsPinecone == {"search"}
C4_AbsentCredentialReported ==
    /\ (~env.openai) =>
          /\ proc # "crashed"
          /\ \A r \in Req :
                /\ \A i \in 1..Len(calls[r]) : calls[r][i].op \notin NeedsOpenAI
                /\ pc[r] = "done" => resp[r].detail = NOT_INITIALIZED
    /\ (~env.pinecone) =>
          /\ proc # "crashed"
          /\ \A r \in Req :
                /\ \A i \in 1..Len(calls[r]) : calls[r][i].op \notin NeedsPinecone
                /\ pc[r] = "done" => resp[r].detail = NOT_INITIALIZED

\* C5: a generation call that returns an empty or absent content gives the
\* response field the empty-response sentinel; the sentinel differs from
\* every "Error generating response: ..." answer; the response field of a 200
\* reply is never empty.
C5_EmptyAnswerSentinel ==
    /\ \A r \in Req : \A i \in CallsOf(r, "generate") :
          (calls[r][i].out = "ok" /\ calls[r][i].ret \in {Null, StrV(<< >>)}) =>
              /\ resp[r].status = 200
              /\ resp[r].response = EMPTY_RESPONSE
    /\ \A r \in Req : \A i \in CallsOf(r, "generate") :
          calls[r][i].out = "raised" => resp[r].response # EMPTY_RESPONSE
    /\ \A r \in Req : resp[r].status = 200 => resp[r].response # << >>

\* The content came back as the empty string for one request and absent for
\* the other.
C5_Witness ==
    /\ \E i \in CallsOf(1, "generate") :
          calls[1][i].out = "ok" /\ calls[1][i].ret = StrV(<< >>)
    /\ \E i \in CallsOf(2, "generate") :
          calls[2][i].out = "ok" /\ calls[2][i].ret = Null
    /\ resp[1].response = EMPTY_RESPONSE
    /\ resp[2].response = EMPTY_RESPONSE

\* The matches of request r that have metadata, in the order of the reply.
HasMetadata(m) == DOMAIN m.metadata # {}
Kept(r) == SelectSeq(search_results[r].matches, HasMetadata)
LoopOver(r) == pc[r] \in {"generate", "generating"} \/ (pc[r] = "done" /\ resp[r].status = 200)
\* The number of "Source Document" sections of a text.
Sections(text) == Cardinality({ i \in 1..Len(text) : text[i] = "\n### Source Document\nTitle: " })
Field(meta, key, default) == IF key \in DOMAIN meta THEN Str(meta[key]) ELSE default

\* C6: once the loop is over, the context list holds one item per match with
\* metadata, in the order of the reply (the i-th item carries the score and
\* the talk id of the i-th such match); it is no longer than the reply; the
\* context text holds one section per item, and the reply's context field
\* is that list.
C6_ContextIsKeptSubsequence ==
    \A r \in Req :
        LoopOver(r) =>
            /\ Len(retrieved_chunks[r]) = Len(Kept(r))
            /\ Len(retrieved_chunks[r]) <= Len(search_results[r].matches)
            /\ \A i \in 1..Len(retrieved_chunks[r]) :
                  /\ retrieved_chunks[r][i].score = Kept(r)[i].score
                  /\ retrieved_chunks[r][i].talk_id =
                        Field(Kept(r)[i].metadata, "talk_id", <<"Unknown">>)
                  /\ retrieved_chunks[r][i].title =
                        Field(Kept(r)[i].metadata, "title", <<"Unknown">>)
            /\ Sections(context_text[r]) = Len(Kept(r))
            /\ pc[r] = "done" => resp[r].context = retrieved_chunks[r]

\* A reply of three matches, the middle one without metadata, answered with
\* the two others in their order.
C6_Witness ==
    /\ pc[1] = "done" /\ resp[1].status = 200
    /\ Len(search_results[1].matches) = 3
    /\ ~HasMetadata(search_results[1].matches[2])
    /\ Len(resp[1].context) = 2
    /\ resp[1].context[1].score = ScoreAt(1)
    /\ resp[1].context[2].score = ScoreAt(3)
    /\ resp[1].context[1].talk_id # resp[1].context[2].talk_id

\* The view counts the claim gives for the numeric strings drawn.
NumericStrings ==
    { <<<<"1", "2", "0", "0", ".", "0">>, 1200>>, <<<<"1", "2">>, 12>>,
      <<<<"-", "3", ".", "9">>, -3>>, <<<<"+", "7", ".">>, 7>>,
      <<<<".", "5">>, 0>> }
IsNumericString(s) == \E p \in NumericStrings : p[1] = s
ValueOfNumericString(s) == (CHOOSE p \in NumericStrings : p[1] = s)[2]
Magnitude(n) == IF n < 0 THEN -n ELSE n

\* C7: the view count of an item is the 'views' value when it is an integer,
\* that value cut to its integer part when it is a float or a numeric
\* string, and 0 when it is absent, null or a string that is no number; a
\* request whose search succeeded is never answered 500.
C7_LenientViews ==
    \A r \in Req :
        /\ LoopOver(r) =>
              \A i \in 1..Len(Kept(r)) :
                  LET meta == Kept(r)[i].metadata
                      views == retrieved_chunks[r][i].views
                  IN  IF "views" \notin DOMAIN meta THEN views = 0
                      ELSE CASE meta["views"].k = "int" -> views = meta["views"].n
                             [] meta["views"].k = "float" ->
                                   /\ Magnitude(views) * 10 <= Magnitude(meta["views"].n)
                                   /\ Magnitude(meta["views"].n) < (Magnitude(views) + 1) * 10
                                   /\ views * meta["views"].n >= 0
                             [] meta["views"].k = "null" -> views = 0
                             [] meta["views"].k = "str" ->
                                   views = IF IsNumericString(meta["views"].s)
                                           THEN ValueOfNumericString(meta["views"].s)
                                           ELSE 0
        /\ (\E i \in CallsOf(r, "search") : calls[r][i].out = "ok") => resp[r].status # 500

\* The string "1200.0" became the view count 1200 of a returned item.
C7_Witness ==
    /\ pc[1] = "done" /\ resp[1].status = 200
    /\ Len(search_results[1].matches) = 1
    /\ "views" \in DOMAIN search_results[1].matches[1].metadata
    /\ search_results[1].matches[1].metadata["views"] = StrV(<<"1", "2", "0", "0", ".", "0">>)
    /\ resp[1].context[1].views = 1200

\* The text a metadata key contributes: str of its value, empty when absent.
KeyText(meta, key) == Field(meta, key, << >>)

\* C8: the passage text of an item is the text of 'chunk_text' when that is
\* not empty, else the text of 'chunk' when that is not empty, else the text
\* of 'text'; it is empty when the three keys are absent.  (A value counts
\* by its str() text.)
C8_PassageTextPriority ==
    \A r \in Req :
        LoopOver(r) =>
            \A i \in 1..Len(Kept(r)) :
                LET meta == Kept(r)[i].metadata
                    chunk == retrieved_chunks[r][i].chunk
                IN  /\ KeyText(meta, "chunk_text") # << >> =>
                          chunk = KeyText(meta, "chunk_text")
                    /\ (KeyText(meta, "chunk_text") = << >> /\ KeyText(meta, "chunk") # << >>) =>
                          chunk = KeyText(meta, "chunk")
                    /\ (KeyText(meta, "chunk_text") = << >> /\ KeyText(meta, "chunk") = << >>) =>
                          chunk = KeyText(meta, "text")
                    /\ ({"chunk_text", "chunk", "text"} \cap DOMAIN meta = {}) =>
                          chunk = << >>

\* 'chunk_text' is present and empty, 'chunk' and 'text' both hold a
\* passage: the item carries the one of 'chunk'.
C8_Witness ==
    /\ pc[1] = "done" /\ resp[1].status = 200
    /\ Len(search_results[1].matches) = 1
    /\ LET meta == search_results[1].matches[1].metadata
       IN  /\ {"chunk_text", "chunk", "text"} \subseteq DOMAIN meta
           /\ meta["chunk_text"] = StrV(<< >>)
           /\ meta["chunk"] = StrV(<<"chunk", " passage">>)
           /\ meta["text"] = StrV(<<"text", " passage">>)
    /\ resp[1].context[1].chunk = <<"chunk", " passage">>

\* C9: the module globals keep the values they were given (chunk size 512,
\* overlap ratio 2/10, top-k 8) in every reachable state, and every reply of
\* GET /api/stats is HTTP 200 with those three values.
C9_StatsConfigFrozen ==
    /\ globals = [TOP_K |-> 8, MAX_CHUNK_SIZE |-> 512, OVERLAP_RATIO |-> <<2, 10>>]
    /\ stats # NoStats =>
          stats = [status |-> 200, chunk_size |-> 512, overlap_ratio |-> <<2, 10>>,
                   top_k |-> 8]

\* The stats were served while one request had been answered and the other
\* was waiting for its generation call.
C9_Witness ==
    /\ stats.status = 200
    /\ pc[1] = "done" /\ resp[1].status = 200
    /\ pc[2] = "generating"

\* C10: the external calls of a request are a prefix of embed, search,
\* generate; a call is invoked only when the one before it has returned
\* without raising (so at most one is pending, and none is repeated); the
\* search is given the vector the embedding returned; the generation is
\* invoked only when the loop is over and the prompts are built.
C10_SequentialCalls ==
    \A r \in Req :
        /\ Len(calls[r]) <= 3
        /\ \A i \in 1..Len(calls[r]) :
              /\ calls[r][i].op = <<"embed", "search", "generate">>[i]
              /\ i < Len(calls[r]) => calls[r][i].out = "ok"
        /\ Len(calls[r]) >= 2 => q_embed[r] \in Vectors
        /\ Len(calls[r]) >= 3 =>
              /\ pos[r] > Len(search_results[r].matches)
              /\ system_prompt[r] = SYSTEM_PROMPT
              /\ user_prompt[r] = UserPrompt(context_text[r], question[r])

\* A request that made the three calls, each once, and was answered.
C10_Witness ==
    /\ Len(calls[1]) = 3
    /\ \A i \in 1..3 : calls[1][i].out = "ok"
    /\ pc[1] = "done"
    /\ Len(calls[2]) = 2 /\ calls[2][2].out = "pending"

\* C11: before, between and after the passes of the loop, the context text
\* is empty exactly when the context list is empty; a reply with no match,
\* or with no match that has metadata, leaves both empty, and the request
\* still invokes the generation call and is answered HTTP 200 with
\* context = [].
C11_TextEmptyIffListEmpty ==
    \A r \in Req :
        /\ (context_text[r] = << >>) <=> (retrieved_chunks[r] = << >>)
        /\ (LoopOver(r) /\ Kept(r) = << >>) =>
              /\ context_text[r] = << >>
              /\ retrieved_chunks[r] = << >>
        /\ (pc[r] = "done" /\ \E i \in CallsOf(r, "search") : calls[r][i].out = "ok") =>
              /\ CallsOf(r, "generate") # {}
              /\ resp[r].status = 200
              /\ resp[r].context = retrieved_chunks[r]
              /\ (Kept(r) = << >>) => resp[r].context = << >>

\* A reply of two matches, neither with metadata, answered 200 with an empty
\* context after the generation call returned a text.
C11_Witness ==
    /\ pc[1] = "done" /\ resp[1].status = 200
    /\ Len(search_results[1].matches) = 2
    /\ Kept(1) = << >>
    /\ context_text[1] = << >>
    /\ resp[1].context = << >>
    /\ GenerationOk(1)
    /\ resp[1].response = <<"The talk is about climate.">>

\* The loop stands between two passes, one item kept so far, text and list
\* both non-empty.
C11_WitnessMidLoop ==
    /\ pc[1] = "loop"
    /\ pos[1] = 2 /\ Len(search_results[1].matches) = 3
    /\ Len(retrieved_chunks[1]) = 1
    /\ context_text[1] # << >>

====
